---------------------------- MODULE Spec2Model ----------------------------
(***************************************************************************)
(* Moodrift: the orchestrator (App.tsx), the config-generation boundary    *)
(* (generateGameForMood) and the three mini-games (MiniGames.tsx) as one   *)
(* state machine.                                                          *)
(*                                                                         *)
(* Units.  Clicker radius and life are kept in fifths (r5 = 5*r,           *)
(* life5 = 5*life) because the per-frame step is speed/5; Catcher          *)
(* vertical positions are kept in half pixels (y2 = 2*y) because the fall  *)
(* speed has the term speed*0.5.  With these units every value the code    *)
(* computes for an integer speed is an integer.                            *)
(***************************************************************************)
EXTENDS Integers, Sequences, FiniteSets, TLC

VARIABLES
  appState,      \* App: useState<AppState>
  currentMood,   \* App: useState<string>
  gameConfig,    \* App: useState<GameConfig | null>, a JS value
  lastScore,     \* App: useState<number>
  pending,       \* generateGameForMood calls awaiting the external response
  clicker,       \* ClickerGame: gameStateRef, timeLeft, rAF and interval handles
  catcher,       \* CatcherGame: gameStateRef, canvas size, rAF handle
  memory,        \* MemoryGame: cards, flippedIds, matches, moves, timers
  gameOverLog,   \* history: onGameOver calls made by the mini-game of this session
  nCalls,        \* history: generateGameForMood calls started so far
  lastOutcome    \* history: outcome of the external call that resolved last

vars == <<appState, currentMood, gameConfig, lastScore, pending,
          clicker, catcher, memory, gameOverLog, nCalls, lastOutcome>>

Max(a, b) == IF a >= b THEN a ELSE b

(***************************************************************************)
(* JS values.  Every value is a record with a type tag t; an object        *)
(* carries the GameConfig properties the mini-games read, each with the    *)
(* JS type the property has in that object ("undefined" when absent).      *)
(***************************************************************************)
GameTypes == {"clicker", "catcher", "memory"}

JsNull == [t |-> "null", gameType |-> "undefined",
           assetsT |-> "undefined", assets |-> <<>>,
           speedT |-> "undefined", speed |-> 0,
           difficultyT |-> "undefined", difficulty |-> 0]

JsArray == [JsNull EXCEPT !.t = "array"]

JsObject(gt, aT, a, sT, s, dT, d) ==
  [t |-> "object", gameType |-> gt, assetsT |-> aT, assets |-> a,
   speedT |-> sT, speed |-> s, difficultyT |-> dT, difficulty |-> d]

Config(gt, a, s, d) == JsObject(gt, "array", a, "number", s, "number", d)

\* types.ts GameConfig, as far as the mini-games depend on it
IsGameConfig(v) ==
  /\ v.t = "object"
  /\ v.gameType \in GameTypes
  /\ v.assetsT = "array" /\ Len(v.assets) >= 1
  /\ v.speedT = "number" /\ v.difficultyT = "number"

FallbackAssets == <<"sparkles", "droplet", "cloud", "blue heart", "star">>

FallbackConfig == Config("clicker", FallbackAssets, 5, 5)

(***************************************************************************)
(* The external call.  An outcome either throws or returns a response      *)
(* whose text is absent or one of ResponseTexts.                           *)
(***************************************************************************)
TxtClicker == "{\"gameType\":\"clicker\",\"assets\":[\"a\",\"b\"],\"parameters\":{\"speed\":10,\"difficulty\":3}}"
TxtCatcher == "{\"gameType\":\"catcher\",\"assets\":[\"a\",\"b\"],\"parameters\":{\"speed\":2,\"difficulty\":3}}"
TxtMemory == "{\"gameType\":\"memory\",\"assets\":[\"a\",\"b\"],\"parameters\":{\"speed\":1,\"difficulty\":1}}"
TxtMemoryEight == "{\"gameType\":\"memory\",\"assets\":[\"a\",\"b\",\"c\",\"d\",\"e\",\"f\",\"g\",\"h\"],\"parameters\":{\"speed\":1,\"difficulty\":1}}"
TxtMemoryTwelve == "{\"gameType\":\"memory\",\"assets\":[\"a\",\"b\",\"c\",\"d\",\"e\",\"f\",\"g\",\"h\",\"i\",\"j\",\"k\",\"l\"],\"parameters\":{\"speed\":1,\"difficulty\":1}}"
TxtMemoryRepeat == "{\"gameType\":\"memory\",\"assets\":[\"a\",\"b\",\"a\",\"d\",\"e\",\"f\",\"g\",\"h\",\"i\"],\"parameters\":{\"speed\":1,\"difficulty\":1}}"
\* A conforming response for one of the frame-driven games at a given speed;
\* these are the responses of the sessions of SpecFrames
SpeedRange == 1..10
TxtSpeed(gameType, speed) ==
  "{\"gameType\":\"" \o gameType
    \o "\",\"assets\":[\"a\",\"b\"],\"parameters\":{\"speed\":"
    \o ToString(speed) \o ",\"difficulty\":5}}"
SpeedTexts == {TxtSpeed(gt, sp) : gt \in {"clicker", "catcher"}, sp \in SpeedRange}
TxtPuzzle == "{\"gameType\":\"puzzle\",\"assets\":[\"a\"],\"parameters\":{\"speed\":5,\"difficulty\":5}}"
TxtNoAssets == "{\"gameType\":\"catcher\",\"assets\":[],\"parameters\":{\"speed\":5,\"difficulty\":5}}"
TxtSpeedString == "{\"gameType\":\"clicker\",\"assets\":[\"a\"],\"parameters\":{\"speed\":\"fast\",\"difficulty\":5}}"
TxtEmptyObject == "{}"
TxtNull == "null"
TxtArray == "[]"
TxtTruncated == "{\"gameType\":\"clicker\",\"assets\":[\"a\""
TxtProse == "Sorry, I cannot help with that."
TxtEmpty == ""

ConformingTexts == {TxtClicker, TxtCatcher, TxtMemory, TxtMemoryEight,
                    TxtMemoryTwelve, TxtMemoryRepeat}
NonConformingTexts == {TxtPuzzle, TxtNoAssets, TxtSpeedString, TxtEmptyObject,
                       TxtNull, TxtArray}
UnparseableTexts == {TxtTruncated, TxtProse}
ResponseTexts == ConformingTexts \cup NonConformingTexts \cup UnparseableTexts
                 \cup {TxtEmpty}

\* JSON.parse: ok = FALSE stands for the SyntaxError it throws
JSONParse(text) ==
  CASE text = TxtClicker -> [ok |-> TRUE, value |-> Config("clicker", <<"a", "b">>, 10, 3)]
    [] text = TxtCatcher -> [ok |-> TRUE, value |-> Config("catcher", <<"a", "b">>, 2, 3)]
    [] text = TxtMemory -> [ok |-> TRUE, value |-> Config("memory", <<"a", "b">>, 1, 1)]
    [] text = TxtMemoryEight ->
         [ok |-> TRUE,
          value |-> Config("memory", <<"a", "b", "c", "d", "e", "f", "g", "h">>, 1, 1)]
    [] text = TxtMemoryTwelve ->
         [ok |-> TRUE,
          value |-> Config("memory", <<"a", "b", "c", "d", "e", "f", "g", "h",
                                       "i", "j", "k", "l">>, 1, 1)]
    [] text = TxtMemoryRepeat ->
         [ok |-> TRUE,
          value |-> Config("memory", <<"a", "b", "a", "d", "e", "f", "g", "h",
                                       "i">>, 1, 1)]
    [] text \in SpeedTexts ->
         LET c == CHOOSE c \in {"clicker", "catcher"} \X SpeedRange :
                    text = TxtSpeed(c[1], c[2])
         IN [ok |-> TRUE, value |-> Config(c[1], <<"a", "b">>, c[2], 5)]
    [] text = TxtPuzzle -> [ok |-> TRUE, value |-> Config("puzzle", <<"a">>, 5, 5)]
    [] text = TxtNoAssets -> [ok |-> TRUE, value |-> Config("catcher", <<>>, 5, 5)]
    [] text = TxtSpeedString ->
         [ok |-> TRUE,
          value |-> JsObject("clicker", "array", <<"a">>, "string", 0, "number", 5)]
    [] text = TxtEmptyObject ->
         [ok |-> TRUE,
          value |-> JsObject("undefined", "undefined", <<>>, "undefined", 0,
                             "undefined", 0)]
    [] text = TxtNull -> [ok |-> TRUE, value |-> JsNull]
    [] text = TxtArray -> [ok |-> TRUE, value |-> JsArray]
    [] OTHER -> [ok |-> FALSE, value |-> JsNull]

NoOutcome == [kind |-> "none", hasText |-> FALSE, text |-> TxtEmpty]

Outcomes ==
  {[kind |-> "throws", hasText |-> FALSE, text |-> TxtEmpty]}
    \cup {[kind |-> "returns", hasText |-> FALSE, text |-> TxtEmpty]}
    \cup {[kind |-> "returns", hasText |-> TRUE, text |-> x] : x \in ResponseTexts}

\* Mutant: the SyntaxError of JSON.parse is swallowed into a null config
\* instead of reaching the catch block
GenerateGameForMoodParseUncaught(outcome) ==
  IF outcome.kind = "throws" THEN FallbackConfig
  ELSE IF (~outcome.hasText) \/ outcome.text = TxtEmpty THEN FallbackConfig
  ELSE JSONParse(outcome.text).value

\* generateGameForMood: the value its promise resolves to, given the outcome
\* of ai.models.generateContent
GenerateGameForMood(outcome) ==
  IF outcome.kind = "throws" THEN FallbackConfig
  ELSE IF (~outcome.hasText) \/ outcome.text = TxtEmpty THEN FallbackConfig
  ELSE IF ~JSONParse(outcome.text).ok THEN FallbackConfig
  ELSE JSONParse(outcome.text).value

(***************************************************************************)
(* Bounds of the exploration.                                              *)
(***************************************************************************)
MaxCalls == 2        \* generateGameForMood calls per behaviour
ClickerMaxTime == 2900   \* Clicker: last animation-frame timestamp, in ms
CatcherMaxTime == 9200   \* Catcher: last animation-frame timestamp, in ms
MaxMoves == 52
SessionMaxTime == 48
SessionMaxMoves == 3       \* Memory: two-card evaluations per session

FrameDts == {16}     \* time between two animation frames, in ms

(***************************************************************************)
(* Mini-game session state at mount (useRef / useState initial values and  *)
(* the handles the mount effect acquires) and when no such game was ever   *)
(* mounted.                                                                *)
(***************************************************************************)
InitialTimeLeft == 30
InitialLife5 == 500      \* life: 100
MaxRadius5 == 200        \* grow while r < 40
HitScore == 10

ClickerMounted ==
  [entities |-> <<>>, lastSpawn |-> 0, isRunning |-> TRUE, score |-> 0,
   timeLeft |-> InitialTimeLeft, spawnId |-> 0, time |-> 0, expired |-> 0,
   ticks |-> 0, rafPending |-> TRUE, timerActive |-> TRUE]

ClickerIdle ==
  [ClickerMounted EXCEPT !.rafPending = FALSE, !.timerActive = FALSE]

\* effect cleanup: cancelAnimationFrame, clearInterval
ClickerCleanup(c) == [c EXCEPT !.rafPending = FALSE, !.timerActive = FALSE]

\* The component App renders in the PLAYING screen
Mounted ==
  IF appState = "PLAYING" /\ gameConfig.t = "object"
     /\ gameConfig.gameType \in GameTypes
  THEN gameConfig.gameType ELSE "none"

RemoveAt(s, i) == SubSeq(s, 1, i - 1) \o SubSeq(s, i + 1, Len(s))

(***************************************************************************)
(* CLICKER                                                                 *)
(***************************************************************************)
EntityXs == {100, 120}   \* x drawn for a spawned target
EntityYs == {100}        \* y drawn for a spawned target
PointerXs == {95, 110}   \* pointer position relative to the canvas
PointerYs == {100}


\* Mutant: the spawn interval with Catcher's floor, 300 ms
ClickerSpawnRateFloor300(speed) == Max(300, 1000 - (speed * 80))

ClickerSpawnRate(speed) == Max(200, 1000 - (speed * 80))

\* One callback of the update forEach: grow, decay
ClickerGrow(ent, speed) ==
  [ent EXCEPT !.r5 = IF ent.r5 < MaxRadius5 THEN ent.r5 + 2 * speed ELSE ent.r5,
              !.life5 = ent.life5 - speed]

\* entities.forEach((ent, index) => ...) with splice(index, 1) inside: the
\* callback runs for index k = 0 .. len-1 (len read once, before the loop)
\* and only when index k still exists in the array
\* on st = the entities and the history count of targets removed unclaimed
RECURSIVE ClickerUpdateLoop(_, _, _, _)
ClickerUpdateLoop(st, k, len, speed) ==
  IF k >= len THEN st
  ELSE IF k >= Len(st.entities) THEN ClickerUpdateLoop(st, k + 1, len, speed)
  ELSE LET ent == ClickerGrow(st.entities[k + 1], speed)
       IN IF ent.life5 <= 0
          THEN ClickerUpdateLoop([st EXCEPT !.entities = RemoveAt(@, k + 1),
                                            !.expired = @ + 1],
                                 k + 1, len, speed)
          ELSE ClickerUpdateLoop([st EXCEPT !.entities[k + 1] = ent],
                                 k + 1, len, speed)

\* dist < ent.r, with dist = sqrt(dx^2 + dy^2) and r = r5 / 5
ClickerInside(ent, px, py) ==
  25 * ((px - ent.x) * (px - ent.x) + (py - ent.y) * (py - ent.y)) < ent.r5 * ent.r5

\* Mutant: a hit scores but the target is not spliced out
ClickerHitNoSplice(st, k) == [st EXCEPT !.score = @ + HitScore]

\* "Hit!": the body of the if, for the target at index k
ClickerHit(st, k) ==
  [st EXCEPT !.score = @ + HitScore, !.entities = RemoveAt(@, k + 1)]

\* The forEach of handleClick, on st = the part of gameStateRef it touches
RECURSIVE ClickerHitLoop(_, _, _, _, _)
ClickerHitLoop(st, k, len, px, py) ==
  IF k >= len THEN st
  ELSE IF k >= Len(st.entities) THEN ClickerHitLoop(st, k + 1, len, px, py)
  ELSE IF ClickerInside(st.entities[k + 1], px, py)
       THEN ClickerHitLoop(ClickerHit(st, k), k + 1, len, px, py)
       ELSE ClickerHitLoop(st, k + 1, len, px, py)

\* handleGameOver, called by the mini-game through its onGameOver prop; the
\* PLAYING screen is left, so the mounted mini-game is unmounted and its
\* effect cleanups run
ReportGameOver(score) ==
  /\ gameOverLog' = Append(gameOverLog, [score |-> score, mounted |-> Mounted])
  /\ lastScore' = score
  /\ appState' = "GAME_OVER"
  /\ UNCHANGED <<currentMood, gameConfig, pending, nCalls, lastOutcome>>

\* render(time), the requestAnimationFrame callback
ClickerFrame(dt, x, y) ==
  /\ clicker.rafPending
  /\ clicker.time + dt <= ClickerMaxTime
  /\ LET time == clicker.time + dt
         speed == gameConfig.speed
         spawn == time - clicker.lastSpawn > ClickerSpawnRate(speed)
         spawned == IF spawn
                    THEN Append(clicker.entities,
                                [id |-> clicker.spawnId, x |-> x, y |-> y,
                                 r5 |-> 0, life5 |-> InitialLife5])
                    ELSE clicker.entities
         st == ClickerUpdateLoop([entities |-> spawned,
                                  expired |-> clicker.expired],
                                 0, Len(spawned), speed)
     IN IF ~clicker.isRunning
        THEN clicker' = [clicker EXCEPT !.rafPending = FALSE, !.time = time]
        ELSE clicker' =
               [clicker EXCEPT
                  !.time = time,
                  !.lastSpawn = IF spawn THEN time ELSE @,
                  !.spawnId = IF spawn THEN @ + 1 ELSE @,
                  !.entities = st.entities,
                  !.expired = st.expired]
  /\ UNCHANGED <<appState, currentMood, gameConfig, lastScore, pending, nCalls,
                 lastOutcome, catcher, memory, gameOverLog>>

\* Mutant: the countdown ends on prev <= 0, one tick late
ClickerTickLate ==
  /\ clicker.timerActive
  /\ IF clicker.timeLeft <= 0
     THEN /\ clicker' = ClickerCleanup([clicker EXCEPT !.isRunning = FALSE,
                                                       !.timerActive = FALSE,
                                                       !.timeLeft = 0,
                                                       !.ticks = @ + 1])
          /\ ReportGameOver(clicker.score)
     ELSE /\ clicker' = [clicker EXCEPT !.timeLeft = @ - 1, !.ticks = @ + 1]
          /\ UNCHANGED <<appState, currentMood, gameConfig, lastScore, pending,
                         nCalls, lastOutcome, gameOverLog>>
  /\ UNCHANGED <<catcher, memory>>

\* The setInterval callback (setTimeLeft updater)
ClickerTick ==
  /\ clicker.timerActive
  /\ IF clicker.timeLeft <= 1
     THEN /\ clicker' = ClickerCleanup([clicker EXCEPT !.isRunning = FALSE,
                                                       !.timerActive = FALSE,
                                                       !.timeLeft = 0,
                                                       !.ticks = @ + 1])
          /\ ReportGameOver(clicker.score)
     ELSE /\ clicker' = [clicker EXCEPT !.timeLeft = @ - 1, !.ticks = @ + 1]
          /\ UNCHANGED <<appState, currentMood, gameConfig, lastScore, pending,
                         nCalls, lastOutcome, gameOverLog>>
  /\ UNCHANGED <<catcher, memory>>

\* handleClick (onMouseDown / onTouchStart of the canvas)
ClickerClick(px, py) ==
  /\ Mounted = "clicker"
  /\ IF ~clicker.isRunning
     THEN UNCHANGED clicker
     ELSE LET st == ClickerHitLoop([entities |-> clicker.entities,
                                    score |-> clicker.score],
                                   0, Len(clicker.entities), px, py)
          IN clicker' = [clicker EXCEPT !.entities = st.entities,
                                        !.score = st.score]
  /\ UNCHANGED <<appState, currentMood, gameConfig, lastScore, pending, nCalls,
                 lastOutcome, catcher, memory, gameOverLog>>

(***************************************************************************)
(* CATCHER                                                                 *)
(***************************************************************************)
InitialLives == 5
PlayerW == 100
PlayerH == 20

\* canvas.width = window.innerWidth, canvas.height = window.innerHeight - 100
WindowSizes == {[width |-> 300, height |-> 114], [width |-> 200, height |-> 80]}
ItemRandom4s == {1, 3}       \* 4 * Math.random() of the x of a spawned item
FallRandom2s == {0, 2}       \* 2 * (Math.random() * 2), in half pixels
MouseXs == {-20, 400}       \* clientX - rect.left of a pointer event

\* Math.random() * (canvas.width - 40) + 20
CatcherItemX(r4, width) == (r4 * (width - 40)) \div 4 + 20

CatcherSpawnRate(speedBase) == Max(300, 1500 - (speedBase * 100))

CatcherMounted(size) ==
  [playerX |-> size.width \div 2, items |-> <<>>, score |-> 0,
   lives |-> InitialLives, isRunning |-> TRUE, lastSpawn |-> 0, spawnId |-> 0,
   time |-> 0, width |-> size.width, height |-> size.height, removed |-> 0,
   rafPending |-> TRUE]

CatcherIdle ==
  [CatcherMounted([width |-> 0, height |-> 0]) EXCEPT !.rafPending = FALSE]

\* effect cleanup: cancelAnimationFrame
CatcherCleanup(c) == [c EXCEPT !.rafPending = FALSE]

\* Mutant: only the left edge is constrained
CatcherClampLeftOnly(playerX, width) ==
  IF playerX < PlayerW \div 2 THEN PlayerW \div 2 ELSE playerX

\* "Constrain player"
CatcherClamp(playerX, width) ==
  LET lo == IF playerX < PlayerW \div 2 THEN PlayerW \div 2 ELSE playerX
  IN IF lo > width - PlayerW \div 2 THEN width - PlayerW \div 2 ELSE lo

\* "Collision with Player", y in half pixels; playerY = height - 50
CatcherCollides(item, playerX, height) ==
  /\ item.y2 > 2 * (height - 50)
  /\ item.y2 < 2 * ((height - 50) + PlayerH + 30)
  /\ item.x > playerX - PlayerW \div 2
  /\ item.x < playerX + PlayerW \div 2

\* "Update Items": for (let i = items.length - 1; i >= 0; i--), on st = the
\* part of gameStateRef the loop touches plus the onGameOver calls it makes;
\* i is the 1-based position of items[i-1]
\* Mutant: a caught item scores but is not spliced out
CatcherCatchNoSplice(st, i) == [st EXCEPT !.score = @ + 1]

\* The body of the collision branch, for the item at position i
CatcherCatch(st, i) ==
  [st EXCEPT !.score = @ + 1, !.items = RemoveAt(@, i), !.removed = @ + 1]

\* The body of the "Missed" branch, for the item at position i
CatcherMiss(st, i) ==
  LET lives == st.lives - 1
      over == lives <= 0
  IN [st EXCEPT !.items = RemoveAt(@, i),
                !.removed = @ + 1,
                !.lives = lives,
                !.isRunning = IF over THEN FALSE ELSE @,
                !.calls = IF over THEN Append(@, st.score) ELSE @]

RECURSIVE CatcherItemLoop(_, _, _, _)
CatcherItemLoop(st, i, playerX, height) ==
  IF i < 1 THEN st
  ELSE LET item == [st.items[i] EXCEPT !.y2 = @ + st.items[i].speed2]
           moved == [st EXCEPT !.items[i] = item]
       IN IF CatcherCollides(item, playerX, height)
          THEN CatcherItemLoop(CatcherCatch(moved, i), i - 1, playerX, height)
          ELSE IF item.y2 > 2 * height
          THEN CatcherItemLoop(CatcherMiss(moved, i), i - 1, playerX, height)
          ELSE CatcherItemLoop(moved, i - 1, playerX, height)

\* onGameOver called once per element of scores, in order, from one callback
ReportGameOverEach(scores) ==
  /\ gameOverLog' = gameOverLog \o
                      [k \in 1..Len(scores) |->
                         [score |-> scores[k], mounted |-> Mounted]]
  /\ lastScore' = scores[Len(scores)]
  /\ appState' = "GAME_OVER"
  /\ UNCHANGED <<currentMood, gameConfig, pending, nCalls, lastOutcome>>

\* render(time), the requestAnimationFrame callback
CatcherFrame(dt, r4, r2) ==
  /\ catcher.rafPending
  /\ catcher.time + dt <= CatcherMaxTime
  /\ LET time == catcher.time + dt
         speedBase == gameConfig.speed
         playerX == CatcherClamp(catcher.playerX, catcher.width)
         spawn == time - catcher.lastSpawn > CatcherSpawnRate(speedBase)
         spawned == IF spawn
                    THEN Append(catcher.items,
                                [id |-> catcher.spawnId,
                                 x |-> CatcherItemX(r4, catcher.width),
                                 y2 |-> -100,
                                 speed2 |-> r2 + speedBase])
                    ELSE catcher.items
         st == CatcherItemLoop([items |-> spawned, score |-> catcher.score,
                                lives |-> catcher.lives,
                                isRunning |-> catcher.isRunning,
                                removed |-> catcher.removed, calls |-> <<>>],
                               Len(spawned), playerX, catcher.height)
         next == [catcher EXCEPT !.time = time,
                                 !.playerX = playerX,
                                 !.lastSpawn = IF spawn THEN time ELSE @,
                                 !.spawnId = IF spawn THEN @ + 1 ELSE @,
                                 !.items = st.items,
                                 !.score = st.score,
                                 !.lives = st.lives,
                                 !.isRunning = st.isRunning,
                                 !.removed = st.removed]
     IN IF ~catcher.isRunning
        THEN /\ catcher' = [catcher EXCEPT !.rafPending = FALSE, !.time = time]
             /\ UNCHANGED <<appState, currentMood, gameConfig, lastScore,
                            pending, nCalls, lastOutcome, gameOverLog>>
        ELSE IF st.calls # <<>>
        THEN /\ catcher' = CatcherCleanup(next)
             /\ ReportGameOverEach(st.calls)
        ELSE /\ catcher' = next
             /\ UNCHANGED <<appState, currentMood, gameConfig, lastScore,
                            pending, nCalls, lastOutcome, gameOverLog>>
  /\ UNCHANGED <<clicker, memory>>

\* handleMouseMove / handleTouchMove
CatcherMove(mx) ==
  /\ Mounted = "catcher"
  /\ catcher' = [catcher EXCEPT !.playerX = mx]
  /\ UNCHANGED <<appState, currentMood, gameConfig, lastScore, pending, nCalls,
                 lastOutcome, clicker, memory, gameOverLog>>

\* handleResize (window 'resize' listener)
CatcherResize(size) ==
  /\ Mounted = "catcher"
  /\ catcher' = [catcher EXCEPT !.width = size.width,
                                !.height = size.height,
                                !.playerX = size.width \div 2]
  /\ UNCHANGED <<appState, currentMood, gameConfig, lastScore, pending, nCalls,
                 lastOutcome, clicker, memory, gameOverLog>>

(***************************************************************************)
(* MEMORY                                                                  *)
(***************************************************************************)
PairsSelected == 8       \* config.assets.slice(0, 8)
BaseScore == 1000
MovePenalty == 20
SmallDeck == 6           \* decks up to this size are shuffled in every order

Take(s, n) == SubSeq(s, 1, IF Len(s) < n THEN Len(s) ELSE n)

\* The orders sort(() => Math.random() - 0.5) is explored with: every
\* permutation of a small deck, the rotations and their reversals of a
\* larger one
ShufflePerms(n) ==
  IF n <= SmallDeck
  THEN {p \in [1..n -> 1..n] : \A i, j \in 1..n : i # j => p[i] # p[j]}
  ELSE {[i \in 1..n |-> ((i - 1 + k) % n) + 1] : k \in 0..(n - 1)}
         \cup {[i \in 1..n |-> ((n - i + k) % n) + 1] : k \in 0..(n - 1)}

\* Mutant: the deck is filled from the whole asset list, not the selection
BuildDeckNoSlice(assets, p) ==
  LET selection == Take(assets, PairsSelected)
      doubled == selection \o selection
      whole == assets \o assets
  IN [index \in 1..Len(doubled) |->
        [id |-> index - 1, content |-> whole[p[index]],
         isFlipped |-> FALSE, isMatched |-> FALSE]]

\* The deck the init effect builds from the asset list, shuffled by p
BuildDeck(assets, p) ==
  LET selection == Take(assets, PairsSelected)
      doubled == selection \o selection
  IN [index \in 1..Len(doubled) |->
        [id |-> index - 1, content |-> doubled[p[index]],
         isFlipped |-> FALSE, isMatched |-> FALSE]]

Decks(assets) ==
  {BuildDeck(assets, p) : p \in ShufflePerms(2 * Len(Take(assets, PairsSelected)))}

NoTimer == <<>>

MemoryMounted(deck) ==
  [cards |-> deck, flippedIds |-> <<>>, matches |-> 0, moves |-> 0,
   mismatchTimer |-> NoTimer, endTimers |-> <<>>, pairFlips |-> 0]

MemoryIdle == MemoryMounted(<<>>)

\* effect cleanups: the match effect clears its timer; the game-over effect
\* returns no cleanup
MemoryCleanup(m) == [m EXCEPT !.mismatchTimer = NoTimer]

\* Mutant: the penalty of the code's comment, "1000 - (moves * 10)"
FinalScorePenaltyTen(moves) == Max(0, BaseScore - (moves * 10))

FinalScore(moves) == Max(0, BaseScore - (moves * MovePenalty))

\* cards.find(c => c.id === id); ids are the positions 0 .. n-1
CardById(cards, id) == cards[id + 1]

\* Mutant: setMoves moved into the no-match branch
MemoryEffectsMoveOnMismatch(m) ==
  IF Len(m.flippedIds) = 2
  THEN LET first == m.flippedIds[1]
           second == m.flippedIds[2]
           moved == [m EXCEPT !.moves = @ + 1]
       IN IF CardById(m.cards, first).content = CardById(m.cards, second).content
          THEN LET matched ==
                     [m EXCEPT
                        !.cards = [i \in 1..Len(m.cards) |->
                                     IF m.cards[i].id = first \/ m.cards[i].id = second
                                     THEN [m.cards[i] EXCEPT !.isMatched = TRUE]
                                     ELSE m.cards[i]],
                        !.matches = @ + 1,
                        !.flippedIds = <<>>]
               IN IF Len(matched.cards) > 0
                     /\ 2 * matched.matches = Len(matched.cards)
                  THEN [matched EXCEPT
                          !.endTimers = Append(@, FinalScore(matched.moves))]
                  ELSE matched
          ELSE [moved EXCEPT !.mismatchTimer = <<first, second>>]
  ELSE m

\* Mutant: the no-match branch counts the move but sets no timer
MemoryEffectsNoTimer(m) ==
  IF Len(m.flippedIds) = 2
  THEN LET first == m.flippedIds[1]
           second == m.flippedIds[2]
           moved == [m EXCEPT !.moves = @ + 1]
       IN IF CardById(m.cards, first).content = CardById(m.cards, second).content
          THEN LET matched ==
                     [moved EXCEPT
                        !.cards = [i \in 1..Len(m.cards) |->
                                     IF m.cards[i].id = first \/ m.cards[i].id = second
                                     THEN [m.cards[i] EXCEPT !.isMatched = TRUE]
                                     ELSE m.cards[i]],
                        !.matches = @ + 1,
                        !.flippedIds = <<>>]
               IN IF Len(matched.cards) > 0
                     /\ 2 * matched.matches = Len(matched.cards)
                  THEN [matched EXCEPT
                          !.endTimers = Append(@, FinalScore(matched.moves))]
                  ELSE matched
          ELSE moved
  ELSE m

\* "Check Match" effect followed by the "Game Over Check" effect, run on the
\* state m committed by a render
MemoryEffects(m) ==
  IF Len(m.flippedIds) = 2
  THEN LET first == m.flippedIds[1]
           second == m.flippedIds[2]
           moved == [m EXCEPT !.moves = @ + 1]
       IN IF CardById(m.cards, first).content = CardById(m.cards, second).content
          THEN LET matched ==
                     [moved EXCEPT
                        !.cards = [i \in 1..Len(m.cards) |->
                                     IF m.cards[i].id = first \/ m.cards[i].id = second
                                     THEN [m.cards[i] EXCEPT !.isMatched = TRUE]
                                     ELSE m.cards[i]],
                        !.matches = @ + 1,
                        !.flippedIds = <<>>]
               IN IF Len(matched.cards) > 0
                     /\ 2 * matched.matches = Len(matched.cards)
                  THEN [matched EXCEPT
                          !.endTimers = Append(@, FinalScore(matched.moves))]
                  ELSE matched
          ELSE [moved EXCEPT !.mismatchTimer = <<first, second>>]
  ELSE m

\* Mutant: handleCardClick without "if (flippedIds.length >= 2) return"
MemoryClickNoLengthGuard(id) ==
  /\ Mounted = "memory"
  /\ memory.moves < MaxMoves
  /\ id \in 0..(Len(memory.cards) - 1)
  /\ IF \/ \E k \in 1..Len(memory.flippedIds) : memory.flippedIds[k] = id
        \/ CardById(memory.cards, id).isMatched
     THEN UNCHANGED memory
     ELSE memory' = MemoryEffects(
                      [memory EXCEPT
                         !.cards[id + 1].isFlipped = TRUE,
                         !.flippedIds = Append(@, id),
                         !.pairFlips = IF Len(memory.flippedIds) = 1
                                       THEN @ + 1 ELSE @])
  /\ UNCHANGED <<appState, currentMood, gameConfig, lastScore, pending, nCalls,
                 lastOutcome, clicker, catcher, gameOverLog>>

\* handleCardClick, then the effects of the render it causes
MemoryClick(id) ==
  /\ Mounted = "memory"
  /\ memory.moves < MaxMoves
  /\ id \in 0..(Len(memory.cards) - 1)
  /\ IF \/ Len(memory.flippedIds) >= 2
        \/ \E k \in 1..Len(memory.flippedIds) : memory.flippedIds[k] = id
        \/ CardById(memory.cards, id).isMatched
     THEN UNCHANGED memory
     ELSE memory' = MemoryEffects(
                      [memory EXCEPT
                         !.cards[id + 1].isFlipped = TRUE,
                         !.flippedIds = Append(@, id),
                         !.pairFlips = IF Len(memory.flippedIds) = 1
                                       THEN @ + 1 ELSE @])
  /\ UNCHANGED <<appState, currentMood, gameConfig, lastScore, pending, nCalls,
                 lastOutcome, clicker, catcher, gameOverLog>>

\* The "No Match" setTimeout callback
MemoryMismatchTimer ==
  /\ memory.mismatchTimer # NoTimer
  /\ LET first == memory.mismatchTimer[1]
         second == memory.mismatchTimer[2]
     IN memory' = MemoryEffects(
                    [memory EXCEPT
                       !.cards = [i \in 1..Len(memory.cards) |->
                                    IF memory.cards[i].id = first
                                       \/ memory.cards[i].id = second
                                    THEN [memory.cards[i] EXCEPT !.isFlipped = FALSE]
                                    ELSE memory.cards[i]],
                       !.flippedIds = <<>>,
                       !.mismatchTimer = NoTimer])
  /\ UNCHANGED <<appState, currentMood, gameConfig, lastScore, pending, nCalls,
                 lastOutcome, clicker, catcher, gameOverLog>>

\* The game-over setTimeout callback: () => onGameOver(finalScore)
MemoryEndTimer ==
  /\ memory.endTimers # <<>>
  /\ memory' = MemoryCleanup([memory EXCEPT !.endTimers = Tail(@)])
  /\ ReportGameOver(Head(memory.endTimers))
  /\ UNCHANGED <<clicker, catcher>>

(***************************************************************************)
(* ORCHESTRATOR (App.tsx)                                                  *)
(***************************************************************************)
Moods == {"Angry", "Happy", "Sad", "Bored", "Anxious", "Overwhelmed"}

\* handleMoodSelect up to its await: a mood button, Enter or Go
HandleMoodSelect(mood) ==
  /\ appState = "MOOD_SELECTION"
  /\ nCalls < MaxCalls
  /\ currentMood' = mood
  /\ appState' = "GENERATING"
  /\ pending' = pending + 1
  /\ nCalls' = nCalls + 1
  /\ UNCHANGED <<gameConfig, lastScore, clicker, catcher, memory, gameOverLog,
                 lastOutcome>>

\* "Play Again": handleMoodSelect(currentMood)
PlayAgain ==
  /\ appState = "GAME_OVER"
  /\ nCalls < MaxCalls
  /\ appState' = "GENERATING"
  /\ pending' = pending + 1
  /\ nCalls' = nCalls + 1
  /\ UNCHANGED <<currentMood, gameConfig, lastScore, clicker, catcher, memory,
                 gameOverLog, lastOutcome>>

\* The rest of handleMoodSelect, once generateGameForMood resolves; the
\* PLAYING screen mounts the mini-game of config.gameType
GenerateResolve(outcome) ==
  /\ pending > 0
  /\ pending' = pending - 1
  /\ LET config == GenerateGameForMood(outcome)
         mounts == IF config.t = "object" /\ config.gameType \in GameTypes
                   THEN config.gameType ELSE "none"
     IN /\ gameConfig' = config
        /\ appState' = "PLAYING"
        /\ clicker' = IF mounts = "clicker" THEN ClickerMounted
                      ELSE ClickerCleanup(clicker)
        /\ \E size \in WindowSizes :
             catcher' = IF mounts = "catcher" THEN CatcherMounted(size)
                        ELSE CatcherCleanup(catcher)
        /\ IF mounts = "memory" /\ config.assetsT = "array"
           THEN \E deck \in Decks(config.assets) :
                  memory' = [MemoryMounted(deck) EXCEPT
                               !.endTimers = memory.endTimers]
           ELSE memory' = MemoryCleanup(memory)
  /\ gameOverLog' = <<>>
  /\ lastOutcome' = outcome
  /\ UNCHANGED <<currentMood, lastScore, nCalls>>

\* The abort button of the PLAYING screen: handleGameOver(0)
Abort ==
  /\ appState = "PLAYING"
  /\ gameConfig.t # "null"
  /\ lastScore' = 0
  /\ appState' = "GAME_OVER"
  /\ clicker' = ClickerCleanup(clicker)
  /\ catcher' = CatcherCleanup(catcher)
  /\ memory' = MemoryCleanup(memory)
  /\ UNCHANGED <<currentMood, gameConfig, pending, nCalls, gameOverLog,
                 lastOutcome>>

\* resetApp: "Choose New Mood"
ResetApp ==
  /\ appState = "GAME_OVER"
  /\ appState' = "MOOD_SELECTION"
  /\ gameConfig' = JsNull
  /\ UNCHANGED <<currentMood, lastScore, pending, nCalls, clicker, catcher,
                 memory, gameOverLog, lastOutcome>>

(***************************************************************************)
(* Specifications.  SpecApp is the orchestrator with the generation call;  *)
(* SpecClicker, SpecCatcher and SpecMemory are one session of a mini-game,  *)
(* from the state in which App has just mounted it.                        *)
(***************************************************************************)
InitApp ==
  /\ appState = "MOOD_SELECTION"
  /\ currentMood = ""
  /\ gameConfig = JsNull
  /\ lastScore = 0
  /\ pending = 0
  /\ nCalls = 0
  /\ lastOutcome = NoOutcome
  /\ clicker = ClickerIdle
  /\ catcher = CatcherIdle
  /\ memory = MemoryIdle
  /\ gameOverLog = <<>>

NextApp ==
  \/ \E mood \in Moods : HandleMoodSelect(mood)
  \/ \E outcome \in Outcomes : GenerateResolve(outcome)
  \/ Abort
  \/ PlayAgain
  \/ ResetApp

SpecApp == InitApp /\ [][NextApp]_vars

Throws == [kind |-> "throws", hasText |-> FALSE, text |-> TxtEmpty]
Returns(text) == [kind |-> "returns", hasText |-> TRUE, text |-> text]

\* The external outcomes the explored sessions were generated from
ClickerOutcomes == {Throws}
CatcherOutcomes == {Returns(TxtCatcher)}
MemoryOutcomes == {Returns(TxtMemory)}

\* App after handleMoodSelect ran to its end with one of the outcomes
InitSession(outcomes) ==
  /\ appState = "PLAYING"
  /\ currentMood = "Angry"
  /\ lastOutcome \in outcomes
  /\ gameConfig = GenerateGameForMood(lastOutcome)
  /\ lastScore = 0
  /\ pending = 0
  /\ nCalls = 1
  /\ gameOverLog = <<>>

InitClicker ==
  /\ InitSession(ClickerOutcomes)
  /\ clicker = ClickerMounted
  /\ catcher = CatcherIdle
  /\ memory = MemoryIdle

NextClicker ==
  \/ \E dt \in FrameDts, x \in EntityXs, y \in EntityYs : ClickerFrame(dt, x, y)
  \/ ClickerTick
  \/ \E px \in PointerXs, py \in PointerYs : ClickerClick(px, py)
  \/ Abort

SpecClicker == InitClicker /\ [][NextClicker]_vars

InitCatcher ==
  /\ InitSession(CatcherOutcomes)
  /\ clicker = ClickerIdle
  /\ catcher \in {CatcherMounted(size) : size \in WindowSizes}
  /\ memory = MemoryIdle

NextCatcher ==
  \/ \E dt \in FrameDts, r4 \in ItemRandom4s, r2 \in FallRandom2s :
       CatcherFrame(dt, r4, r2)
  \/ \E mx \in MouseXs : CatcherMove(mx)
  \/ \E size \in WindowSizes : CatcherResize(size)
  \/ Abort

SpecCatcher == InitCatcher /\ [][NextCatcher]_vars

InitMemory ==
  /\ InitSession(MemoryOutcomes)
  /\ clicker = ClickerIdle
  /\ catcher = CatcherIdle
  /\ memory \in {MemoryMounted(deck) : deck \in Decks(gameConfig.assets)}

NextMemory ==
  \/ \E id \in 0..(2 * PairsSelected - 1) : MemoryClick(id)
  \/ MemoryMismatchTimer
  \/ MemoryEndTimer
  \/ Abort

SpecMemory == InitMemory /\ [][NextMemory]_vars

\* A timeout that was set and is not cleared runs: the browser's timer queue
\* calls the no-match callback about a second after the effect set it
SpecMemoryFair ==
  InitMemory /\ [][NextMemory]_vars /\ WF_vars(MemoryMismatchTimer)

\* The render loops of Clicker and Catcher alone, for every speed of the
\* schema's range, with frames 20 ms apart: each spawn interval is then a
\* whole number of frames, so a frame falls exactly on it
SweepDts == {20}
SweepOutcomes == {Returns(text) : text \in SpeedTexts}
SweepWindow == [width |-> 300, height |-> 114]

InitFrames ==
  /\ InitSession(SweepOutcomes)
  /\ clicker = IF gameConfig.gameType = "clicker" THEN ClickerMounted
               ELSE ClickerIdle
  /\ catcher = IF gameConfig.gameType = "catcher" THEN CatcherMounted(SweepWindow)
               ELSE CatcherIdle
  /\ memory = MemoryIdle

NextFrames ==
  \/ \E dt \in SweepDts, x \in EntityXs, y \in EntityYs : ClickerFrame(dt, x, y)
  \/ \E dt \in SweepDts, r4 \in ItemRandom4s, r2 \in FallRandom2s :
       CatcherFrame(dt, r4, r2)

SpecFrames == InitFrames /\ [][NextFrames]_vars

\* App with its three mini-games over two generation calls: each session is
\* followed for a few frames or moves (Clicker can still run out its
\* countdown, Memory can still match a 4-card deck), so that what one
\* session leaves behind meets the next
SessionOutcomes == ClickerOutcomes \cup CatcherOutcomes \cup MemoryOutcomes

SessionMoods == {"Angry", "Sad"}

NextMoodDrift ==
  \/ \E mood \in SessionMoods : HandleMoodSelect(mood)
  \/ \E outcome \in SessionOutcomes : GenerateResolve(outcome)
  \/ Abort
  \/ PlayAgain
  \/ ResetApp
  \/ \E dt \in FrameDts, x \in EntityXs, y \in EntityYs :
       clicker.time < SessionMaxTime /\ ClickerFrame(dt, x, y)
  \/ ClickerTick
  \/ \E px \in PointerXs, py \in PointerYs : ClickerClick(px, py)
  \/ \E dt \in FrameDts, r4 \in ItemRandom4s, r2 \in FallRandom2s :
       catcher.time < SessionMaxTime /\ CatcherFrame(dt, r4, r2)
  \/ \E mx \in MouseXs : CatcherMove(mx)
  \/ \E size \in WindowSizes : CatcherResize(size)
  \/ \E id \in 0..(2 * PairsSelected - 1) :
       memory.moves < SessionMaxMoves /\ MemoryClick(id)
  \/ MemoryMismatchTimer
  \/ MemoryEndTimer

SpecMoodDrift == InitApp /\ [][NextMoodDrift]_vars

(***************************************************************************)
(* CLAIMS                                                                  *)
(***************************************************************************)

\* C1: in one session the mini-game invokes onGameOver at most once.
C1_AtMostOneGameOver == Len(gameOverLog) <= 1

\* C2: once the mini-game is unmounted, none of its callbacks or timers
\* fires: no step taken while nothing is mounted changes mini-game state,
\* calls onGameOver or changes the reported score.
C2_NothingFiresAfterUnmount ==
  [][Mounted = "none" =>
       /\ clicker' = clicker /\ catcher' = catcher /\ memory' = memory
       /\ gameOverLog' = gameOverLog /\ lastScore' = lastScore]_vars

\* C3: whatever the external call throws or returns, the config
\* generateGameForMood hands to the PLAYING screen is a valid GameConfig.
C3_AlwaysValidConfig ==
  (appState = "PLAYING" /\ pending = 0) => IsGameConfig(gameConfig)

\* The outcomes C4 is about: the call throws, or returns no text, empty
\* text or text that is not JSON
FailedOutcome(o) ==
  \/ o.kind = "throws"
  \/ o.kind = "returns" /\ (~o.hasText \/ o.text = "" \/ o.text \in UnparseableTexts)

\* C4: a call that throws, returns no or empty text, or returns text that
\* is not JSON resolves (PLAYING is reached) to the fixed fallback:
\* clicker, speed 5, difficulty 5, five assets.
C4_FallbackOnFailure ==
  (appState = "PLAYING" /\ pending = 0 /\ FailedOutcome(lastOutcome)) =>
     /\ gameConfig.t = "object"
     /\ gameConfig.gameType = "clicker"
     /\ gameConfig.speedT = "number" /\ gameConfig.speed = 5
     /\ gameConfig.difficultyT = "number" /\ gameConfig.difficulty = 5
     /\ gameConfig.assetsT = "array"
     /\ gameConfig.assets = <<"sparkles", "droplet", "cloud", "blue heart", "star">>

C4_Witness ==
  /\ appState = "PLAYING" /\ pending = 0
  /\ lastOutcome.kind = "returns" /\ lastOutcome.text = TxtTruncated
  /\ gameConfig.gameType = "clicker" /\ Len(gameConfig.assets) = 5

\* C5: Catcher: when lives reaches 0 exactly one onGameOver call is made,
\* with the score (items caught) of that moment.
C5_ExactlyOneCallAtZeroLives ==
  catcher.lives <= 0 =>
     /\ Len(gameOverLog) = 1
     /\ gameOverLog[1].score <= catcher.score
     /\ lastScore = gameOverLog[1].score

\* C6: Catcher: every removed item was either caught (score + 1) or missed
\* (lives - 1): score + (5 - lives) = items removed.
C6_ItemAccounting ==
  catcher.score + (5 - catcher.lives) = catcher.removed

C6_Witness ==
  /\ catcher.score >= 1 /\ catcher.lives <= 3
  /\ catcher.removed = catcher.score + (5 - catcher.lives)

\* C7: Clicker: one pointer event that scores removes exactly one target
\* and adds exactly 10 (and no event removes a target without scoring 10).
C7_OneTargetPerClick ==
  [][clicker'.score # clicker.score =>
       /\ clicker'.score = clicker.score + 10
       /\ Len(clicker'.entities) = Len(clicker.entities) - 1]_vars

\* C8: Clicker: the score is 10 times the number of targets removed by
\* pointer hits (spawned, no longer live, not removed unclaimed by a frame).
C8_ScoreIsTenPerHit ==
  clicker.score =
    10 * (clicker.spawnId - Len(clicker.entities) - clicker.expired)

C8_Witness ==
  /\ clicker.expired >= 1 /\ clicker.score >= 10
  /\ clicker.score = 10 * (clicker.spawnId - Len(clicker.entities) - clicker.expired)

\* C9: Clicker: timeLeft is 30 minus the ticks so far; no onGameOver call
\* before the 30th tick; at the 30th tick the interval and the loop stop,
\* onGameOver is called once with the score of that moment, and the score
\* never changes afterwards.
C9_Countdown ==
  /\ clicker.timeLeft = 30 - clicker.ticks
  /\ clicker.ticks < 30 => (gameOverLog = <<>> /\ clicker.isRunning)
  /\ clicker.ticks >= 30 =>
        /\ clicker.ticks = 30
        /\ ~clicker.isRunning /\ ~clicker.timerActive
        /\ Len(gameOverLog) = 1
        /\ gameOverLog[1].score = clicker.score
        /\ appState = "GAME_OVER" /\ lastScore = clicker.score

C9_Witness ==
  /\ clicker.ticks = 30 /\ clicker.score >= 10
  /\ gameOverLog = <<[score |-> clicker.score, mounted |-> "clicker"]>>

\* Every pair of the deck is matched
MemoryAllMatched ==
  Len(memory.cards) > 0 /\ 2 * memory.matches = Len(memory.cards)

MemoryMismatchUp ==
  /\ Mounted = "memory"
  /\ Len(memory.flippedIds) = 2
  /\ CardById(memory.cards, memory.flippedIds[1]).content
       # CardById(memory.cards, memory.flippedIds[2]).content

\* No card is face-up except the matched ones, and the face-up list is empty
MemoryAllResolved ==
  /\ memory.flippedIds = <<>>
  /\ \A i \in 1..Len(memory.cards) :
        memory.cards[i].isFlipped => memory.cards[i].isMatched

\* C11: Memory: two face-up cards of unequal content are eventually flipped
\* back and the face-up list emptied, as long as the game stays mounted and
\* the mismatch timer, once set, fires.
C11_MismatchFlipsBack ==
  MemoryMismatchUp ~> (MemoryAllResolved \/ Mounted # "memory")

C11_Witness ==
  /\ Mounted = "memory" /\ MemoryAllResolved
  /\ memory.moves = 1 /\ memory.matches = 0
  /\ memory.mismatchTimer = NoTimer

\* The face-up list names distinct cards, all face-up and unmatched, and no
\* other unmatched card is face-up
MemoryFaceUpOk(m) ==
  /\ Len(m.flippedIds) <= 2
  /\ \A j, k \in 1..Len(m.flippedIds) : j # k => m.flippedIds[j] # m.flippedIds[k]
  /\ {i \in 1..Len(m.cards) : m.cards[i].isFlipped /\ ~m.cards[i].isMatched}
       = {m.flippedIds[k] + 1 : k \in 1..Len(m.flippedIds)}
  /\ Cardinality({i \in 1..Len(m.cards) :
                    m.cards[i].isFlipped /\ ~m.cards[i].isMatched}) <= 2

\* C12: Memory: at most two unmatched cards are face-up and the face-up list
\* holds at most two distinct ids; a card turns face-up only when fewer than
\* two are up and it is unmatched and face-down; while two cards are up, no
\* step but the mismatch timer or the unmount changes the game.
C12_NoThirdCard ==
  [][/\ MemoryFaceUpOk(memory) /\ MemoryFaceUpOk(memory')
     /\ Len(memory'.cards) = Len(memory.cards)
     /\ \A i \in 1..Len(memory.cards) :
          (memory'.cards[i].isFlipped /\ ~memory.cards[i].isFlipped) =>
             /\ Len(memory.flippedIds) < 2
             /\ ~memory.cards[i].isMatched
             /\ memory'.cards = [memory.cards EXCEPT ![i].isFlipped = TRUE]
                \/ memory'.flippedIds = <<>>
     /\ (Len(memory.flippedIds) = 2 /\ appState' = appState
            /\ memory'.mismatchTimer = memory.mismatchTimer) =>
          memory' = memory]_vars

C12_Witness ==
  /\ Mounted = "memory" /\ Len(memory.flippedIds) = 2
  /\ memory.moves = 2 /\ memory.mismatchTimer = memory.flippedIds
  /\ Cardinality({i \in 1..Len(memory.cards) : memory.cards[i].isFlipped}) = 2

\* The cards a step turns face-up
MemoryTurnedUp ==
  {i \in 1..Len(memory.cards) :
     memory'.cards[i].isFlipped /\ ~memory.cards[i].isFlipped}

\* C13: Memory: a step that completes a two-card evaluation adds exactly 1
\* to moves, and exactly 1 to matches when the two contents are equal and 0
\* otherwise; no other step changes either counter; moves is the number of
\* evaluations and matches the number of matched pairs.
C13_MoveAndMatchCounters ==
  [][/\ memory'.moves = memory'.pairFlips
     /\ 2 * memory'.matches
          = Cardinality({i \in 1..Len(memory'.cards) : memory'.cards[i].isMatched})
     /\ IF Len(memory.flippedIds) = 1 /\ MemoryTurnedUp # {}
        THEN /\ memory'.moves = memory.moves + 1
             /\ \A i \in MemoryTurnedUp :
                  memory'.matches =
                    IF memory.cards[i].content
                         = CardById(memory.cards, memory.flippedIds[1]).content
                    THEN memory.matches + 1 ELSE memory.matches
        ELSE /\ memory'.moves = memory.moves
             /\ memory'.matches = memory.matches]_vars

C13_Witness ==
  /\ memory.moves = 2 /\ memory.matches = 1 /\ memory.pairFlips = 2
  /\ Cardinality({i \in 1..Len(memory.cards) : memory.cards[i].isMatched}) = 2

\* Memory has just been mounted on an asset list of at least 8 entries
MemoryDeckCase ==
  /\ Mounted = "memory" /\ gameConfig.assetsT = "array"
  /\ Len(gameConfig.assets) >= 8
  /\ memory.moves = 0 /\ memory.flippedIds = <<>>

\* 16 cards, all face-down and unmatched, ids the positions 0..15
MemoryDeckShape(cards) ==
  /\ Len(cards) = 16
  /\ \A i \in 1..Len(cards) :
        cards[i].id = i - 1 /\ ~cards[i].isFlipped /\ ~cards[i].isMatched

\* The number of cards of the deck showing the content of card i
MemoryCopies(cards, i) ==
  Cardinality({j \in 1..Len(cards) : cards[j].content = cards[i].content})

\* C14 as stated: for an asset list of length at least 8 the initial deck
\* has 16 face-down unmatched cards with ids 0..15 and every content value
\* appears exactly twice.
C14_EveryContentTwice ==
  MemoryDeckCase =>
     /\ MemoryDeckShape(memory.cards)
     /\ \A i \in 1..Len(memory.cards) : MemoryCopies(memory.cards, i) = 2

\* C14 amended: for an asset list of length at least 8 the initial deck has
\* 16 face-down unmatched cards with ids 0..15, and every content value
\* appears twice as often as among the first 8 assets: exactly twice when
\* those 8 are distinct.
C14_ContentTwicePerSelected ==
  MemoryDeckCase =>
     /\ MemoryDeckShape(memory.cards)
     /\ \A i \in 1..Len(memory.cards) :
          /\ MemoryCopies(memory.cards, i)
               = 2 * Cardinality({k \in 1..8 :
                                    gameConfig.assets[k] = memory.cards[i].content})
          /\ (\A j, k \in 1..8 :
                 j # k => gameConfig.assets[j] # gameConfig.assets[k])
               => MemoryCopies(memory.cards, i) = 2

C14_Witness ==
  /\ MemoryDeckCase /\ Len(gameConfig.assets) = 12
  /\ memory.cards[1].content = "e" /\ memory.cards[16].content = "d"
  /\ MemoryCopies(memory.cards, 1) = 2

\* C15: the abort button during PLAYING leaves the app in GAME_OVER with
\* lastScore = 0, whatever the session had scored, and lastScore stays 0
\* until a new session reports a score.
C15_AbortScoresZero ==
  [][/\ (appState = "PLAYING" /\ appState' = "GAME_OVER"
           /\ gameOverLog' = gameOverLog) => lastScore' = 0
     /\ (appState # "PLAYING" /\ appState' # "PLAYING"
           /\ lastScore = 0 /\ gameOverLog = <<>>) => lastScore' = 0]_vars

\* C16: from GENERATING the only transition is to PLAYING: no event, a
\* callback left over from an earlier session included, moves the app from
\* the loading screen to another screen.
C16_GeneratingOnlyToPlaying ==
  [][appState = "GENERATING" => appState' \in {"GENERATING", "PLAYING"}]_vars

\* C17: the screens follow MOOD_SELECTION -> GENERATING -> PLAYING ->
\* GAME_OVER (and from GAME_OVER back to GENERATING or MOOD_SELECTION);
\* while PLAYING the mini-game of the configured gameType is mounted; the
\* step that ends the session sets lastScore to the score of the onGameOver
\* call that ended it (0 for the abort button), and GAME_OVER keeps it.
C17_ScreenFlow ==
  [][/\ Mounted' = (IF appState' = "PLAYING" THEN gameConfig'.gameType ELSE "none")
     /\ appState = "MOOD_SELECTION" =>
          appState' \in {"MOOD_SELECTION", "GENERATING"}
     /\ appState = "GENERATING" => appState' \in {"GENERATING", "PLAYING"}
     /\ appState = "PLAYING" =>
          \/ appState' = "PLAYING" /\ lastScore' = lastScore
          \/ /\ appState' = "GAME_OVER"
             /\ Len(gameOverLog') <= Len(gameOverLog) + 1
             /\ lastScore' = IF gameOverLog' = gameOverLog THEN 0
                             ELSE gameOverLog'[Len(gameOverLog')].score
     /\ appState = "GAME_OVER" =>
          /\ appState' \in {"GAME_OVER", "GENERATING", "MOOD_SELECTION"}
          /\ lastScore' = lastScore]_vars

\* C18: for every speed 1..10 a Clicker frame spawns a target exactly when
\* the frame time minus lastSpawn exceeds max(200, 1000 - 80 * speed), a
\* Catcher frame spawns an item exactly when it exceeds
\* max(300, 1500 - 100 * speed), and lastSpawn becomes the frame time of a
\* spawning frame and is kept by the others.
C18_SpawnIntervals ==
  [][/\ gameConfig.speed \in 1..10
     /\ (clicker.isRunning /\ clicker'.time # clicker.time) =>
          IF clicker'.time - clicker.lastSpawn
               > Max(200, 1000 - 80 * gameConfig.speed)
          THEN /\ clicker'.lastSpawn = clicker'.time
               /\ clicker'.spawnId = clicker.spawnId + 1
               /\ \E k \in 1..Len(clicker'.entities) :
                    clicker'.entities[k].id = clicker.spawnId
          ELSE /\ clicker'.lastSpawn = clicker.lastSpawn
               /\ clicker'.spawnId = clicker.spawnId
     /\ (catcher.isRunning /\ catcher'.time # catcher.time) =>
          IF catcher'.time - catcher.lastSpawn
               > Max(300, 1500 - 100 * gameConfig.speed)
          THEN /\ catcher'.lastSpawn = catcher'.time
               /\ catcher'.spawnId = catcher.spawnId + 1
               /\ \E k \in 1..Len(catcher'.items) :
                    catcher'.items[k].id = catcher.spawnId
          ELSE /\ catcher'.lastSpawn = catcher.lastSpawn
               /\ catcher'.spawnId = catcher.spawnId]_vars

C18_Witness ==
  /\ Mounted = "clicker" /\ gameConfig.speed = 10
  /\ clicker.spawnId = 2 /\ clicker.lastSpawn = 440 /\ clicker.time = 640

\* C19: Clicker, speed 1..10: in every frame the radius of every target is
\* between 0 and 40 (r5 is the radius in fifths of a pixel) and a target's
\* radius never decreases from one frame to the next.
C19_RadiusWithin40 ==
  [][\A k \in 1..Len(clicker'.entities) :
       /\ clicker'.entities[k].r5 >= 0
       /\ clicker'.entities[k].r5 <= 5 * 40
       /\ \A j \in 1..Len(clicker.entities) :
            clicker.entities[j].id = clicker'.entities[k].id =>
              clicker'.entities[k].r5 >= clicker.entities[j].r5]_vars

\* C20: Clicker: a frame of the running loop takes speed/5 off the life of
\* every target that stays live (life5 is the life in fifths: speed per
\* frame), the target spawned in the frame included, and removes exactly
\* the targets whose life thereby reaches 0, also when another target
\* expires in the same frame.
C20_DecayOncePerFrame ==
  [][(clicker.isRunning /\ clicker'.time # clicker.time) =>
       /\ \A k \in 1..Len(clicker'.entities) :
            LET ent == clicker'.entities[k]
            IN IF ent.id >= clicker.spawnId
               THEN ent.life5 = 5 * 100 - gameConfig.speed
               ELSE \E j \in 1..Len(clicker.entities) :
                      /\ clicker.entities[j].id = ent.id
                      /\ ent.life5 = clicker.entities[j].life5 - gameConfig.speed
       /\ \A j \in 1..Len(clicker.entities) :
            (\E k \in 1..Len(clicker'.entities) :
               clicker'.entities[k].id = clicker.entities[j].id)
              <=> clicker.entities[j].life5 - gameConfig.speed > 0]_vars

\* C21: Catcher: lives starts at 5 and is within 0..5 in every state, and
\* once it is 0 no step moves, removes, scores or counts an item.
C21_LivesWithinRange ==
  [][/\ catcher.lives \in 0..5 /\ catcher'.lives \in 0..5
     /\ catcher.lives = 0 =>
          /\ catcher'.items = catcher.items
          /\ catcher'.score = catcher.score
          /\ catcher'.lives = catcher.lives
          /\ catcher'.removed = catcher.removed]_vars

\* The items a step takes out of the playfield
CatcherTakenOut ==
  {i \in 1..Len(catcher.items) :
     \A k \in 1..Len(catcher'.items) : catcher'.items[k].id # catcher.items[i].id}

\* C22: Catcher, playfield at least 100 wide: whatever pointer positions
\* arrived before it, a frame of the running loop tests collisions against
\* a paddle centre within [50, width - 50] (a centre already in that range
\* is used as it is), and it counts as caught only removed items whose x
\* lies strictly within 50 of that centre, hence inside the playfield.
C22_PaddleClamped ==
  [][(catcher.isRunning /\ catcher'.time # catcher.time /\ catcher.width >= 100) =>
       /\ catcher'.playerX >= 50
       /\ catcher'.playerX <= catcher.width - 50
       /\ (catcher.playerX >= 50 /\ catcher.playerX <= catcher.width - 50)
            => catcher'.playerX = catcher.playerX
       /\ catcher'.score - catcher.score
            <= Cardinality({i \in CatcherTakenOut :
                              /\ catcher.items[i].x > catcher'.playerX - 50
                              /\ catcher.items[i].x < catcher'.playerX + 50
                              /\ catcher.items[i].x > 0
                              /\ catcher.items[i].x < catcher.width})]_vars

C22_Witness ==
  /\ Mounted = "catcher" /\ catcher.width = 300 /\ catcher.playerX = 250
  /\ catcher.score = 1 /\ catcher.removed = 1 /\ catcher.items = <<>>

\* C23: in every reachable state of the orchestrator, appState = PLAYING
\* implies that gameConfig is not null.
C23_PlayingHasConfig ==
  appState = "PLAYING" => gameConfig.t # "null"

=============================================================================
